---- MODULE Spec2Model ----
(***************************************************************************)
(* Credit ledger and payment verification of Blog2Visuals.                 *)
(*                                                                         *)
(* Two route handlers share two tables of the store (profiles, payments):  *)
(*   POST deduct-credit   (src/unnamed/part_002)                           *)
(*   POST verify-payment  (src/unnamed/part_001)                           *)
(* Each handler is a sequence of awaited calls; a handler step is the code *)
(* that runs between two awaits, so that concurrent requests interleave at *)
(* the store reads and writes exactly as they do on the server.            *)
(*                                                                         *)
(* Around them: POST create-order (src/app/api/create-order/route.ts), the *)
(* Home page that exports and buys (src/app/page.tsx), and the creation of *)
(* profile rows at sign-in (src/lib/profile.ts, auth.ts, AuthContext.tsx). *)
(*                                                                         *)
(* Environment assumptions of the model: RAZORPAY_KEY_SECRET is configured *)
(* (the CONFIG_ERROR return of part_001:72-81 is not taken); a store read  *)
(* of a route handler fails only because the row is missing; a store write *)
(* may fail, at most MaxFaults times in a run.                             *)
(***************************************************************************)
EXTENDS Integers, Sequences, FiniteSets, TLC

VARIABLES
    credits,      \* profiles table: user id -> credits, for the rows that exist
    payments,     \* payments table: the sequence of inserted rows
    rpcDeployed,  \* whether the database function decrement_credit exists
    pc,           \* per request slot: the await the handler is suspended at
    req,          \* per request slot: the request being served
    loc,          \* per request slot: the handler's local variables
    resp,         \* per request slot: the response returned
    pre,          \* history: the store as it was when the request arrived
    calls,        \* history: number of requests received so far
    grants,       \* history: per payment id, ledger credit writes performed
    credited,     \* history: the requests whose call wrote a grant to the ledger
    lost,         \* history: per payment id, success rows whose insert failed
    faults,       \* history: number of store writes that failed
    orders,       \* the payment provider's orders: order id -> the order created
    home,         \* the Home page in one browser: React state, localStorage, export in progress
    credits0,     \* history: the profiles table of the initial state
    ensure        \* per sign-in flow of the browser: its position in ensuring the profile

vars == <<credits, payments, rpcDeployed, pc, req, loc, resp, pre, calls,
          grants, credited, lost, faults, orders, home, credits0, ensure>>

\* the variables no route handler of the ledger touches
others == <<orders, home, credits0, ensure>>

\* the variables of the route handlers of the ledger
ledger == <<credits, payments, rpcDeployed, pc, req, loc, resp, pre, calls,
            grants, credited, lost, faults>>

----------------------------------------------------------------------------
(* Bounds of the model *)

\* requests received in one run
MaxCalls == 3
\* largest balance an account starts with
MaxInitCredits == 1
\* store writes that fail in one run
MaxFaults == 1
\* clicks on the download button in one run
MaxExports == 2

(* Program constants *)

CREDITS_TO_ADD == 10
DEFAULT_CREDITS == 1
AMOUNT_IN_PAISE == 19900
FREE_DOWNLOAD_LIMIT == 1
PRO_DOWNLOAD_CREDITS == 10
maxAttempts == 3

----------------------------------------------------------------------------
(* Value domains *)

Procs == {"p1", "p2"}
Users == {"u1", "u2"}
NoUser == "none"            \* user_id absent / null in the body
NoToken == "none"           \* no authorization header
BadToken == "bad"           \* a token auth.getUser rejects
Tokens == Users \cup {NoToken, BadToken}   \* a user's id stands for that user's token
Orders == {"o1", "o2"}
PaymentIds == {"pA", "pB"}
Missing == ""               \* a missing (falsy) body field
None == -1                  \* a numeric response field that is absent

NoRow == [user_id |-> NoUser, razorpay_order_id |-> Missing,
          razorpay_payment_id |-> Missing, amount |-> 0,
          credits_added |-> 0, status |-> "null"]

NoReq == [kind |-> "none", user_id |-> NoUser, token |-> NoToken,
          razorpay_order_id |-> Missing, razorpay_payment_id |-> Missing,
          razorpay_signature |-> <<>>]

NoLoc == [fetched |-> FALSE, currentCredits |-> 0, newTotalCredits |-> 0,
          reads |-> 0, ledgerWrites |-> 0, ledgerDelta |-> 0, inserted |-> 0]

\* the code paths that make sure a signed-in user has a profile row: signIn
\* (auth.ts) and the AuthProvider's onAuthStateChange listener (AuthContext.tsx),
\* which both run when a user signs in
Flows == {"signIn", "AuthProvider"}

\* a flow that has not run; before is history: the credits of the user's row
\* when the flow's upsert ran (None: no row)
NoFlow == [pc |-> "idle", user |-> NoUser, result |-> "", before |-> None]

\* an order id the provider has issued no order for
NoOrder == [amount |-> 0, currency |-> "", credits |-> "", user_id |-> "",
            product |-> "",
            asked |-> [currency |-> "", product |-> "", amount |-> None]]

\* the Home page as first rendered in a browser that never opened the site:
\* useState defaults (page.tsx:75-84), useAuth without a session, empty
\* localStorage, no export in progress; delivered and userDelivered are
\* history: the exports delivered in all and while signed in
NoHome == [user |-> NoUser, downloadCount |-> 0, paidCredits |-> 0,
           hasUsedPostLoginFree |-> FALSE,
           stored |-> [downloads |-> None, credits |-> None, postLoginFreeUsed |-> FALSE],
           exporting |-> "idle", creditDeducted |-> FALSE, seenCount |-> 0,
           paying |-> "idle", order |-> Missing, verifyAttempts |-> 0,
           error |-> "", redirected |-> FALSE, attempts |-> 0, delivered |-> 0,
           userDelivered |-> 0]

NoResp == [status |-> 0, success |-> FALSE, code |-> "", error |-> "",
           duplicate |-> FALSE, credits_added |-> None, total_credits |-> None,
           credits |-> None, deducted |-> None]

----------------------------------------------------------------------------
(* Signature check: crypto.createHmac(...).digest("hex"), Buffer.from(s,   *)
(* "hex") and crypto.timingSafeEqual.                                      *)

\* Value of a hex digit, -1 for a character that is no hex digit.
HexVal(c) ==
    CASE c = "0" -> 0
      [] c = "1" -> 1
      [] c = "a" -> 10
      [] c = "A" -> 10
      [] c = "b" -> 11
      [] c = "B" -> 11
      [] OTHER -> -1

\* Buffer.from(s, "hex"): decodes two characters per byte, stops at the first
\* pair that is not hexadecimal, and drops an odd trailing character.
RECURSIVE HexDecode(_)
HexDecode(s) ==
    IF Len(s) < 2 THEN <<>>
    ELSE IF HexVal(s[1]) < 0 \/ HexVal(s[2]) < 0 THEN <<>>
    ELSE <<16 * HexVal(s[1]) + HexVal(s[2])>> \o HexDecode(SubSeq(s, 3, Len(s)))

\* The keyed digest of "order_id|payment_id", in lower-case hex.  The digest
\* is abstracted to one byte that is distinct for each (order, payment) pair
\* of the model.
ExpectedSignature(order, payment) ==
    << (IF order = "o1" THEN "0" ELSE "1"), (IF payment = "pA" THEN "a" ELSE "b") >>

\* crypto.timingSafeEqual(a, b): throws a RangeError when the byte lengths
\* differ, otherwise tells whether the buffers are equal.
TimingSafeEqual(a, b) ==
    IF Len(a) # Len(b) THEN "throws" ELSE IF a = b THEN "true" ELSE "false"

\* Steps 4-5 of verify-payment: "true", "false" or "throws".
IsValid(order, payment, signature) ==
    TimingSafeEqual(HexDecode(ExpectedSignature(order, payment)),
                    HexDecode(signature))

----------------------------------------------------------------------------
(* Store queries *)

\* .single(): the row when exactly one row matches, otherwise data = null.
Single(idx) ==
    IF Cardinality(idx) = 1 THEN payments[CHOOSE i \in idx : TRUE] ELSE NoRow

\* the lookup by payment id finding nothing
ExistingByPaymentId_None(payment) == NoRow

\* from("payments").select().eq("razorpay_payment_id", id).single()
ExistingByPaymentId(payment) ==
    Single({i \in 1..Len(payments) : payments[i].razorpay_payment_id = payment})

\* from("payments").select().eq("razorpay_order_id", id).eq("status","success").single()
ExistingByOrderId(order) ==
    Single({i \in 1..Len(payments) :
              /\ payments[i].razorpay_order_id = order
              /\ payments[i].status = "success"})

\* from("profiles").select("credits").eq("id", user).single(): no row is an error
HasProfile(user) == user \in DOMAIN credits

\* the database function decrement_credit(user_uuid): one conditional update,
\* credits = credits - 1 where id = user_uuid and credits > 0
decrement_credit(user) ==
    IF user \in DOMAIN credits /\ credits[user] > 0
    THEN [credits EXCEPT ![user] = @ - 1]
    ELSE credits

\* from("profiles").update({credits: n}).eq("id", user).gt("credits", 0)
UpdateCreditsIfPositive(user, n) ==
    IF user \in DOMAIN credits /\ credits[user] > 0
    THEN [credits EXCEPT ![user] = n]
    ELSE credits

\* from("profiles").update({credits: n}).eq("id", user)
UpdateCredits(user, n) ==
    IF user \in DOMAIN credits THEN [credits EXCEPT ![user] = n] ELSE credits

\* history: the store and the ledger history as a request finds them
Snapshot ==
    [credits |-> credits, rows |-> Len(payments), grants |-> grants,
     credited |-> credited]

----------------------------------------------------------------------------
(* Initial state *)

Init ==
    /\ \/ \E c \in 0..MaxInitCredits :
              credits = [u \in Users |-> IF u = "u1" THEN c ELSE MaxInitCredits]
       \/ credits = [u \in {"u2"} |-> MaxInitCredits]     \* u1 has no profile row
    /\ payments = <<>>
    /\ rpcDeployed \in BOOLEAN
    /\ pc = [p \in Procs |-> "idle"]
    /\ req = [p \in Procs |-> NoReq]
    /\ loc = [p \in Procs |-> NoLoc]
    /\ resp = [p \in Procs |-> NoResp]
    /\ calls = 0
    /\ grants = [x \in PaymentIds |-> 0]
    /\ credited = {}
    /\ pre = [p \in Procs |-> Snapshot]
    /\ lost = [x \in PaymentIds |-> 0]
    /\ faults = 0
    /\ orders = [o \in Orders |-> NoOrder]
    /\ home = NoHome
    /\ credits0 = credits
    /\ ensure = [f \in Flows |-> NoFlow]

----------------------------------------------------------------------------
(* Helpers of the handlers *)

\* The handler returns: NextResponse.json(body, {status})
Return(p, r) ==
    /\ pc' = [pc EXCEPT ![p] = "done"]
    /\ resp' = [resp EXCEPT ![p] = r]

\* A request arrives at slot p.
Accept(p, r) ==
    /\ pc[p] \in {"idle", "done"}
    /\ calls < MaxCalls
    /\ calls' = calls + 1
    /\ req' = [req EXCEPT ![p] = r]
    /\ loc' = [loc EXCEPT ![p] = NoLoc]
    /\ pre' = [pre EXCEPT ![p] = Snapshot]

\* auth.getUser(token): the user of the session, or an error
SessionUser(token) == IF token \in Users THEN token ELSE NoUser

\* history kept with a ledger write of slot p: whether a row changed, and by how much
Wrote(p, l, newCredits) ==
    IF newCredits = credits THEN l
    ELSE [l EXCEPT !.ledgerWrites = @ + 1,
                   !.ledgerDelta = @ + newCredits[req[p].user_id] - credits[req[p].user_id]]

----------------------------------------------------------------------------
(* POST deduct-credit *)

DeductError(status, error, code) ==
    [NoResp EXCEPT !.status = status, !.error = error, !.code = code]

\* the success response reporting the balance before the decrement
DeductSuccess_Stale(newCredits) ==
    [NoResp EXCEPT !.status = 200, !.success = TRUE, !.credits = newCredits + 1,
                   !.deducted = 1]

DeductSuccess(newCredits) ==
    [NoResp EXCEPT !.status = 200, !.success = TRUE, !.credits = newCredits,
                   !.deducted = 1]

\* Step 2 with the comparison to the session user left out
DeductUserMismatch_MissingOnly(user_id, sessionUser) ==
    user_id = NoUser

\* Step 2: the session user must be the requested user_id
DeductUserMismatch(user_id, sessionUser) ==
    user_id = NoUser \/ user_id # sessionUser

\* the check with < in place of <=
InsufficientCredits_OnlyNegative(currentCredits) == currentCredits < 0

\* "Prevent negative credits"
InsufficientCredits(currentCredits) == currentCredits <= 0

\* Steps 1-2: token, session, body, user match; then the profile read is issued.
DeductStart(p, userIds, tokens) ==
    \E user_id \in userIds, token \in tokens :
      /\ Accept(p, [NoReq EXCEPT !.kind = "deduct", !.user_id = user_id,
                                 !.token = token])
      /\ IF token = NoToken
           THEN Return(p, DeductError(401, "Unauthorized - No session token", "NO_TOKEN"))
         ELSE IF SessionUser(token) = NoUser
           THEN Return(p, DeductError(401, "Unauthorized - Invalid session", "INVALID_SESSION"))
         ELSE IF DeductUserMismatch(user_id, SessionUser(token))
           THEN Return(p, DeductError(403, "Unauthorized - User mismatch", "USER_MISMATCH"))
         ELSE /\ pc' = [pc EXCEPT ![p] = "d_fetch"]
              /\ resp' = [resp EXCEPT ![p] = NoResp]
      /\ UNCHANGED <<credits, payments, rpcDeployed, grants, credited, lost, faults>>

\* Step 3: the profile read returns.
DeductFetch(p) ==
    /\ pc[p] = "d_fetch"
    /\ LET user == req[p].user_id IN
       IF ~HasProfile(user)
         THEN /\ Return(p, DeductError(500, "Failed to fetch user credits", ""))
              /\ loc' = [loc EXCEPT ![p].reads = @ + 1]
       ELSE IF InsufficientCredits(credits[user])
         THEN /\ Return(p, [NoResp EXCEPT !.status = 400, !.success = FALSE,
                                          !.error = "Insufficient credits",
                                          !.credits = 0])
              /\ loc' = [loc EXCEPT ![p].fetched = TRUE, ![p].reads = @ + 1,
                                    ![p].currentCredits = credits[user]]
       ELSE /\ pc' = [pc EXCEPT ![p] = "d_rpc"]
            /\ loc' = [loc EXCEPT ![p].fetched = TRUE, ![p].reads = @ + 1,
                                  ![p].currentCredits = credits[user]]
            /\ UNCHANGED resp
    /\ UNCHANGED <<credits, payments, rpcDeployed, req, pre, calls, grants, credited, lost, faults>>

\* Step 4: rpc('decrement_credit') returns: the function ran, or it does not
\* exist (the handler falls back to the regular update).
DeductRpc(p) ==
    /\ pc[p] = "d_rpc"
    /\ IF rpcDeployed
         THEN /\ credits' = decrement_credit(req[p].user_id)
              /\ loc' = [loc EXCEPT ![p] = Wrote(p, @, credits')]
              /\ pc' = [pc EXCEPT ![p] = "d_reread"]
         ELSE /\ pc' = [pc EXCEPT ![p] = "d_fallback"]
              /\ UNCHANGED <<credits, loc>>
    /\ UNCHANGED <<payments, rpcDeployed, req, resp, pre, calls, grants, credited, lost, faults>>

\* Step 4: rpc('decrement_credit') fails with an error other than a missing function.
DeductRpcFails(p) ==
    /\ pc[p] = "d_rpc"
    /\ rpcDeployed
    /\ faults < MaxFaults
    /\ faults' = faults + 1
    /\ Return(p, DeductError(500, "Failed to deduct credit", ""))
    /\ UNCHANGED <<credits, payments, rpcDeployed, req, loc, pre, calls, grants, credited, lost>>

\* Fallback: update({credits: currentCredits - 1}).eq(id).gt("credits", 0)
\* returns without error, whether or not a row matched.
DeductFallback(p) ==
    /\ pc[p] = "d_fallback"
    /\ LET newCredits == loc[p].currentCredits - 1 IN
         /\ credits' = UpdateCreditsIfPositive(req[p].user_id, newCredits)
         /\ loc' = [loc EXCEPT ![p] = Wrote(p, @, credits')]
         /\ Return(p, DeductSuccess(newCredits))
    /\ UNCHANGED <<payments, rpcDeployed, req, pre, calls, grants, credited, lost, faults>>

\* Fallback: the update returns an error.
DeductFallbackFails(p) ==
    /\ pc[p] = "d_fallback"
    /\ faults < MaxFaults
    /\ faults' = faults + 1
    /\ Return(p, DeductError(500, "Failed to deduct credit", ""))
    /\ UNCHANGED <<credits, payments, rpcDeployed, req, loc, pre, calls, grants, credited, lost>>

\* "Get the new credit count": newProfile?.credits ?? (currentCredits - 1)
DeductReread(p) ==
    /\ pc[p] = "d_reread"
    /\ LET user == req[p].user_id
           newCredits == IF HasProfile(user) THEN credits[user]
                         ELSE loc[p].currentCredits - 1
       IN Return(p, DeductSuccess(newCredits))
    /\ loc' = [loc EXCEPT ![p].reads = @ + 1]
    /\ UNCHANGED <<credits, payments, rpcDeployed, req, pre, calls, grants, credited, lost, faults>>

----------------------------------------------------------------------------
(* POST verify-payment *)

VerifyError(status, error, code) ==
    [NoResp EXCEPT !.status = status, !.error = error, !.code = code]

\* Step 1 never rejecting
VerifyUserMismatch_Never(user_id, token) == FALSE

\* a binding that turns away every request whose token does not prove user_id
VerifyUserMismatch_RequiresProof(user_id, token) ==
    user_id # NoUser /\ SessionUser(token) # user_id

\* Step 1: with a user_id and a token that resolves to a session user, the two
\* must be the same user
VerifyUserMismatch(user_id, token) ==
    /\ user_id # NoUser
    /\ token # NoToken
    /\ SessionUser(token) # NoUser
    /\ SessionUser(token) # user_id

\* the row of a failed verification attempt
SignatureFailedRow(r) ==
    [user_id |-> r.user_id, razorpay_order_id |-> r.razorpay_order_id,
     razorpay_payment_id |-> r.razorpay_payment_id, amount |-> AMOUNT_IN_PAISE,
     credits_added |-> 0, status |-> "signature_failed"]

\* the row of a credited payment
SuccessRow(r) ==
    [user_id |-> r.user_id, razorpay_order_id |-> r.razorpay_order_id,
     razorpay_payment_id |-> r.razorpay_payment_id, amount |-> AMOUNT_IN_PAISE,
     credits_added |-> CREDITS_TO_ADD, status |-> "success"]

\* the duplicate response reporting the grant again
AlreadyVerified_ReportsGrant(currentCredits) ==
    [NoResp EXCEPT !.status = 200, !.success = TRUE, !.duplicate = TRUE,
                   !.credits_added = CREDITS_TO_ADD,
                   !.total_credits = currentCredits + CREDITS_TO_ADD,
                   !.code = "ALREADY_VERIFIED"]

AlreadyVerified(currentCredits) ==
    [NoResp EXCEPT !.status = 200, !.success = TRUE, !.duplicate = TRUE,
                   !.credits_added = 0, !.total_credits = currentCredits,
                   !.code = "ALREADY_VERIFIED"]

ReplayAttack ==
    [NoResp EXCEPT !.status = 400, !.success = FALSE, !.duplicate = TRUE,
                   !.error = "This order has already been paid", !.code = "REPLAY_ATTACK"]

\* the response of step 8 turned into a failure
VerifySuccess_AsFailure(newTotalCredits) ==
    VerifyError(500, "Failed to record payment", "RECORD_ERROR")

VerifySuccess(newTotalCredits) ==
    [NoResp EXCEPT !.status = 200, !.success = TRUE, !.duplicate = FALSE,
                   !.credits_added = CREDITS_TO_ADD,
                   !.total_credits = newTotalCredits, !.code = "SUCCESS"]

\* a handler that credits the account before the duplicate, replay and
\* signature checks
VerifyStart_CreditsFirst(p, order, payment, signatures, userIds, tokens) ==
    \E signature \in signatures, user_id \in userIds, token \in tokens :
      /\ Accept(p, [kind |-> "verify", user_id |-> user_id, token |-> token,
                    razorpay_order_id |-> order, razorpay_payment_id |-> payment,
                    razorpay_signature |-> signature])
      /\ IF order = Missing \/ payment = Missing \/ signature = <<>>
           THEN Return(p, VerifyError(400, "Missing payment verification details",
                                      "MISSING_DETAILS"))
         ELSE IF VerifyUserMismatch(user_id, token)
           THEN Return(p, VerifyError(403, "Unauthorized - User mismatch", "USER_MISMATCH"))
         ELSE /\ pc' = [pc EXCEPT ![p] = IF user_id # NoUser THEN "v_fetch"
                                          ELSE "v_byPayment"]
              /\ resp' = [resp EXCEPT ![p] = NoResp]
      /\ UNCHANGED <<credits, payments, rpcDeployed, grants, credited, lost, faults>>

\* Body validation and step 1; then the lookup by payment id is issued.
VerifyStart(p, order, payment, signatures, userIds, tokens) ==
    \E signature \in signatures, user_id \in userIds, token \in tokens :
      /\ Accept(p, [kind |-> "verify", user_id |-> user_id, token |-> token,
                    razorpay_order_id |-> order, razorpay_payment_id |-> payment,
                    razorpay_signature |-> signature])
      /\ IF order = Missing \/ payment = Missing \/ signature = <<>>
           THEN Return(p, VerifyError(400, "Missing payment verification details",
                                      "MISSING_DETAILS"))
         ELSE IF VerifyUserMismatch(user_id, token)
           THEN Return(p, VerifyError(403, "Unauthorized - User mismatch", "USER_MISMATCH"))
         ELSE /\ pc' = [pc EXCEPT ![p] = "v_byPayment"]
              /\ resp' = [resp EXCEPT ![p] = NoResp]
      /\ UNCHANGED <<credits, payments, rpcDeployed, grants, credited, lost, faults>>

\* Step 2: the lookup by payment id returns.
VerifyByPaymentId(p) ==
    /\ pc[p] = "v_byPayment"
    /\ IF ExistingByPaymentId(req[p].razorpay_payment_id) # NoRow
         THEN IF req[p].user_id # NoUser
                THEN /\ pc' = [pc EXCEPT ![p] = "v_dupCredits"]
                     /\ UNCHANGED resp
                ELSE Return(p, AlreadyVerified(0))
         ELSE /\ pc' = [pc EXCEPT ![p] = "v_byOrder"]
              /\ UNCHANGED resp
    /\ loc' = [loc EXCEPT ![p].reads = @ + 1]
    /\ UNCHANGED <<credits, payments, rpcDeployed, req, pre, calls, grants, credited, lost, faults>>

\* Step 2, duplicate, with a record written for the duplicate attempt
VerifyDuplicateCredits_Recording(p) ==
    /\ pc[p] = "v_dupCredits"
    /\ LET user == req[p].user_id
           currentCredits == IF HasProfile(user) THEN credits[user] ELSE 0
       IN Return(p, AlreadyVerified(currentCredits))
    /\ payments' = Append(payments, [SignatureFailedRow(req[p]) EXCEPT !.status = "duplicate"])
    /\ loc' = [loc EXCEPT ![p].reads = @ + 1, ![p].inserted = @ + 1]
    /\ UNCHANGED <<credits, rpcDeployed, req, pre, calls, grants, credited, lost, faults>>

\* Step 2, duplicate: the read of the user's current credits returns
\* (profile?.credits || 0).
VerifyDuplicateCredits(p) ==
    /\ pc[p] = "v_dupCredits"
    /\ LET user == req[p].user_id
           currentCredits == IF HasProfile(user) THEN credits[user] ELSE 0
       IN Return(p, AlreadyVerified(currentCredits))
    /\ loc' = [loc EXCEPT ![p].reads = @ + 1]
    /\ UNCHANGED <<credits, payments, rpcDeployed, req, pre, calls, grants, credited, lost, faults>>

\* Step 3: the lookup by order id returns; steps 4-5 (the signature check) run
\* in the same turn.
VerifyByOrderId(p) ==
    /\ pc[p] = "v_byOrder"
    /\ LET r == req[p]
           isValid == IsValid(r.razorpay_order_id, r.razorpay_payment_id,
                              r.razorpay_signature)
       IN IF ExistingByOrderId(r.razorpay_order_id) # NoRow
            THEN Return(p, ReplayAttack)
          ELSE IF isValid = "throws"
            THEN Return(p, VerifyError(500, "Input buffers must have the same byte length",
                                       "UNKNOWN_ERROR"))
          ELSE IF isValid = "false"
            THEN IF r.user_id # NoUser
                   THEN /\ pc' = [pc EXCEPT ![p] = "v_insertFailed"]
                        /\ UNCHANGED resp
                   ELSE Return(p, VerifyError(400,
                                  "Payment verification failed - invalid signature",
                                  "INVALID_SIGNATURE"))
          ELSE IF r.user_id # NoUser
            THEN /\ pc' = [pc EXCEPT ![p] = "v_fetch"]
                 /\ UNCHANGED resp
          ELSE Return(p, VerifySuccess(CREDITS_TO_ADD))
    /\ loc' = [loc EXCEPT ![p].reads = @ + 1]
    /\ UNCHANGED <<credits, payments, rpcDeployed, req, pre, calls, grants, credited, lost, faults>>

\* Step 5, invalid signature: the insert of the signature_failed row returns;
\* its result is not inspected.
VerifyInsertFailed(p) ==
    /\ pc[p] = "v_insertFailed"
    /\ \/ /\ payments' = Append(payments, SignatureFailedRow(req[p]))
          /\ loc' = [loc EXCEPT ![p].inserted = @ + 1]
          /\ UNCHANGED faults
       \/ /\ faults < MaxFaults
          /\ faults' = faults + 1
          /\ UNCHANGED <<payments, loc>>
    /\ Return(p, VerifyError(400, "Payment verification failed - invalid signature",
                             "INVALID_SIGNATURE"))
    /\ UNCHANGED <<credits, rpcDeployed, req, pre, calls, grants, credited, lost>>

\* Step 6: the profile read returns.
VerifyFetch(p) ==
    /\ pc[p] = "v_fetch"
    /\ LET user == req[p].user_id IN
       IF ~HasProfile(user)
         THEN /\ Return(p, VerifyError(500, "Failed to fetch user profile", "PROFILE_ERROR"))
              /\ loc' = [loc EXCEPT ![p].reads = @ + 1]
         ELSE /\ loc' = [loc EXCEPT ![p].fetched = TRUE, ![p].reads = @ + 1,
                                    ![p].currentCredits = credits[user],
                                    ![p].newTotalCredits = credits[user] + CREDITS_TO_ADD]
              /\ pc' = [pc EXCEPT ![p] = "v_update"]
              /\ UNCHANGED resp
    /\ UNCHANGED <<credits, payments, rpcDeployed, req, pre, calls, grants, credited, lost, faults>>

\* Step 6: update({credits: newTotalCredits}).eq("id", user_id) returns.
VerifyUpdate(p) ==
    /\ pc[p] = "v_update"
    /\ \/ /\ credits' = UpdateCredits(req[p].user_id, loc[p].newTotalCredits)
          /\ loc' = [loc EXCEPT ![p] = Wrote(p, @, credits')]
          /\ grants' = [grants EXCEPT ![req[p].razorpay_payment_id] = @ + 1]
          /\ credited' = credited \cup {req[p]}
          /\ pc' = [pc EXCEPT ![p] = "v_insert"]
          /\ UNCHANGED <<resp, faults>>
       \/ /\ faults < MaxFaults
          /\ faults' = faults + 1
          /\ Return(p, VerifyError(500, "Failed to update credits. Please contact support.",
                                   "CREDIT_UPDATE_ERROR"))
          /\ UNCHANGED <<credits, loc, grants, credited>>
    /\ UNCHANGED <<payments, rpcDeployed, req, pre, calls, lost>>

\* Steps 7-8: the insert of the success row returns; a failure is logged only.
VerifyInsert(p) ==
    /\ pc[p] = "v_insert"
    /\ \/ /\ payments' = Append(payments, SuccessRow(req[p]))
          /\ loc' = [loc EXCEPT ![p].inserted = @ + 1]
          /\ UNCHANGED <<lost, faults>>
       \/ /\ faults < MaxFaults
          /\ faults' = faults + 1
          /\ lost' = [lost EXCEPT ![req[p].razorpay_payment_id] = @ + 1]
          /\ UNCHANGED <<payments, loc>>
    /\ Return(p, VerifySuccess(loc[p].newTotalCredits))
    /\ UNCHANGED <<credits, rpcDeployed, req, pre, calls, grants, credited>>

----------------------------------------------------------------------------
(* Profile creation (src/lib/profile.ts, auth.ts, AuthContext.tsx) *)

\* profileExists(userId): the row was read; a read error counts as no row
profileExists(user) == HasProfile(user)

\* an upsert that overwrites the row it finds
createProfile_Overwrites(user) ==
    IF HasProfile(user) THEN [credits EXCEPT ![user] = DEFAULT_CREDITS]
    ELSE [u \in DOMAIN credits \cup {user} |->
             IF u = user THEN DEFAULT_CREDITS ELSE credits[u]]

\* createProfile(userId, email): upsert({id, email, credits: DEFAULT_CREDITS},
\* {onConflict: "id", ignoreDuplicates: true}), i.e. insert ... on conflict
\* (id) do nothing
createProfile(user) ==
    IF HasProfile(user) THEN credits
    ELSE [u \in DOMAIN credits \cup {user} |->
             IF u = user THEN DEFAULT_CREDITS ELSE credits[u]]

\* A sign-in event of user u reaches flow f (signUp, signIn, ensureProfile,
\* initializeAuth, onAuthStateChange SIGNED_IN): profileExists is called.
EnsureStart(f, u) ==
    /\ ensure[f].pc \in {"idle", "done"}
    /\ ensure' = [ensure EXCEPT ![f] = [NoFlow EXCEPT !.pc = "exists", !.user = u]]
    /\ UNCHANGED <<ledger, orders, home, credits0>>

\* profileExists returns: createProfile is called unless the row was read.
EnsureExists(f) ==
    /\ ensure[f].pc = "exists"
    /\ \/ ensure' = [ensure EXCEPT ![f].pc =
                         IF profileExists(ensure[f].user) THEN "done" ELSE "create"]
       \/ ensure' = [ensure EXCEPT ![f].pc = "create"]     \* the read failed
    /\ UNCHANGED <<ledger, orders, home, credits0>>

\* createProfile returns: the upsert ran, or it failed.
EnsureCreate(f) ==
    /\ ensure[f].pc = "create"
    /\ LET user == ensure[f].user
           before == IF HasProfile(user) THEN credits[user] ELSE None
       IN \/ /\ credits' = createProfile(user)
             /\ ensure' = [ensure EXCEPT ![f].pc = "done", ![f].before = before,
                              ![f].result = IF HasProfile(user) THEN "existing"
                                            ELSE "created"]
             /\ UNCHANGED faults
          \/ /\ faults < MaxFaults
             /\ faults' = faults + 1
             /\ ensure' = [ensure EXCEPT ![f].pc = "done", ![f].before = before,
                              ![f].result = "error"]
             /\ UNCHANGED credits
    /\ UNCHANGED <<payments, rpcDeployed, pc, req, loc, resp, pre, calls, grants,
                   credited, lost, orders, home, credits0>>

----------------------------------------------------------------------------
(* POST create-order *)

\* the price table, in the smallest unit of the currency
PRICING(currency, product) ==
    CASE currency = "INR" /\ product = "proPack" -> 19900
      [] currency = "INR" /\ product = "business" -> 99900
      [] currency = "USD" /\ product = "proPack" -> 299
      [] currency = "USD" /\ product = "business" -> 1299

\* body.currency, when it is a supported currency, else the default
OrderCurrency(asked) == IF asked \in {"USD", "INR"} THEN asked ELSE "INR"

\* body.product, when it is "business", else the default
OrderProduct(asked) == IF asked = "business" THEN "business" ELSE "proPack"

\* history: the amount field of a request body, which the handler never reads
BodyAmount(body) == IF "amount" \in DOMAIN body THEN body.amount ELSE None

\* a handler that takes the amount from the request body when it has one
OrderOptions_ClientAmount(body) ==
    LET currency == OrderCurrency(body.currency)
        product == OrderProduct(body.product)
    IN [amount |-> IF BodyAmount(body) # None THEN BodyAmount(body)
                   ELSE PRICING(currency, product),
        currency |-> currency,
        credits |-> IF product = "proPack" THEN "10" ELSE "50",
        user_id |-> IF body.user_id # NoUser THEN body.user_id ELSE "anonymous",
        product |-> IF product = "proPack" THEN "Pro Pack - 10 Exports"
                    ELSE "Business Pack - 50 Exports",
        asked |-> [currency |-> body.currency, product |-> body.product,
                   amount |-> BodyAmount(body)]]

\* what is sent to razorpay.orders.create for a request body
OrderOptions(body) ==
    LET currency == OrderCurrency(body.currency)
        product == OrderProduct(body.product)
    IN [amount |-> PRICING(currency, product),
        currency |-> currency,
        credits |-> IF product = "proPack" THEN "10" ELSE "50",
        user_id |-> IF body.user_id # NoUser THEN body.user_id ELSE "anonymous",
        product |-> IF product = "proPack" THEN "Pro Pack - 10 Exports"
                    ELSE "Business Pack - 50 Exports",
        asked |-> [currency |-> body.currency, product |-> body.product,
                   amount |-> BodyAmount(body)]]

\* The handler with configured credentials and a provider that answers: the
\* provider creates the order under a fresh id o.
CreateOrder(o, body) ==
    /\ orders[o] = NoOrder
    /\ orders' = [orders EXCEPT ![o] = OrderOptions(body)]
    /\ UNCHANGED <<ledger, credits0, ensure>>

----------------------------------------------------------------------------
(* The Home page (src/app/page.tsx) in one browser *)

\* useAuth(): isAuthenticated is !!user
isAuthenticated(h) == h.user # NoUser

\* "Calculate limits based on authentication status and credits"
totalAllowedDownloads(h) ==
    IF isAuthenticated(h)
      THEN IF ~h.hasUsedPostLoginFree THEN 1 ELSE h.paidCredits
      ELSE FREE_DOWNLOAD_LIMIT + h.paidCredits

hasReachedLimit(h) == h.downloadCount >= totalAllowedDownloads(h)

remainingDownloads(h) ==
    IF totalAllowedDownloads(h) - h.downloadCount > 0
      THEN totalAllowedDownloads(h) - h.downloadCount ELSE 0

\* the bearer token of getAuthHeaders / getSession: the session's, if any
SessionToken(h) == IF h.user # NoUser THEN h.user ELSE NoToken

\* The mount effects: downloadCount, paidCredits and hasUsedPostLoginFree are
\* loaded from localStorage; a key that is absent leaves the useState default.
\* (toString / parseInt(s, 10) give back the integer that was stored.)
Mounted(h) ==
    [h EXCEPT !.downloadCount = IF h.stored.downloads # None THEN h.stored.downloads ELSE 0,
              !.paidCredits = IF h.stored.credits # None THEN h.stored.credits ELSE 0,
              !.hasUsedPostLoginFree = h.stored.postLoginFreeUsed,
              !.exporting = "idle", !.creditDeducted = FALSE, !.seenCount = 0,
              !.paying = "idle", !.order = Missing, !.verifyAttempts = 0,
              !.error = "", !.redirected = FALSE]

\* The visitor signs in on the login page and comes back to the Home page,
\* which mounts anew.
HomeSignIn(u) ==
    /\ home.user = NoUser
    /\ home.exporting = "idle"
    /\ home.paying = "idle"
    /\ home' = [Mounted(home) EXCEPT !.user = u]
    /\ UNCHANGED <<ledger, orders, credits0, ensure>>

\* The user signs out: useAuth() has no user any more.
HomeSignOut ==
    /\ home.user # NoUser
    /\ home.exporting = "idle"
    /\ home.paying = "idle"
    /\ home' = [home EXCEPT !.user = NoUser]
    /\ UNCHANGED <<ledger, orders, credits0, ensure>>

\* handleDownloadPng up to its first await: the limit check, and for a user
\* the debit request (slot p); without a user the local bookkeeping.
HomeDownloadPng(p) ==
    /\ home.exporting = "idle"
    /\ home.attempts < MaxExports
    /\ LET h == [home EXCEPT !.attempts = @ + 1, !.error = "", !.creditDeducted = FALSE,
                             !.seenCount = home.downloadCount]
       IN IF hasReachedLimit(home)
            THEN /\ home' = [home EXCEPT !.attempts = @ + 1,
                                         !.redirected = @ \/ isAuthenticated(home)]
                 /\ UNCHANGED ledger
          ELSE IF home.user # NoUser
            THEN /\ home' = [h EXCEPT !.exporting = "deduct"]
                 /\ DeductStart(p, {home.user}, {SessionToken(home)})
          ELSE IF isAuthenticated(home)
            THEN /\ UNCHANGED ledger
                 /\ IF ~home.hasUsedPostLoginFree
                      THEN home' = [h EXCEPT !.hasUsedPostLoginFree = TRUE,
                                             !.stored.postLoginFreeUsed = TRUE,
                                             !.creditDeducted = TRUE,
                                             !.exporting = "render"]
                    ELSE IF home.paidCredits <= 0
                      THEN home' = [h EXCEPT !.redirected = TRUE]
                    ELSE home' = [h EXCEPT !.exporting = "render"]
          ELSE /\ UNCHANGED ledger
               /\ IF home.downloadCount >= FREE_DOWNLOAD_LIMIT
                    THEN home' = [h EXCEPT !.error = "Free limit reached. Please sign up to get more credits."]
                    ELSE home' = [h EXCEPT !.creditDeducted = TRUE, !.exporting = "render"]
    /\ UNCHANGED <<orders, credits0, ensure>>

\* a page that goes on to the renderer whatever deduct-credit answered
HomeDeducted_RendersAnyway(p) ==
    /\ home.exporting = "deduct"
    /\ pc[p] = "done"
    /\ req[p].kind = "deduct"
    /\ home' = [home EXCEPT !.creditDeducted = TRUE, !.exporting = "render"]
    /\ UNCHANGED <<ledger, orders, credits0, ensure>>

\* a page that renders although deduct-credit answered Insufficient credits
HomeDeducted_RendersWhenInsufficient(p) ==
    /\ home.exporting = "deduct"
    /\ pc[p] = "done"
    /\ req[p].kind = "deduct"
    /\ home' = IF resp[p].error = "Insufficient credits" \/ resp[p].success
                 THEN [home EXCEPT !.creditDeducted = TRUE, !.exporting = "render"]
                 ELSE [home EXCEPT !.exporting = "idle", !.error = resp[p].error]
    /\ UNCHANGED <<ledger, orders, credits0, ensure>>

\* handleDownloadPng: the response of deduct-credit has arrived.
HomeDeducted(p) ==
    /\ home.exporting = "deduct"
    /\ pc[p] = "done"
    /\ req[p].kind = "deduct"
    /\ LET r == resp[p] IN
       IF r.status # 200 \/ ~r.success
         THEN home' = [home EXCEPT
                 !.exporting = "idle",
                 !.error = IF r.status \in {401, 403}
                             THEN "Session expired. Please login again."
                           ELSE IF r.error = "Insufficient credits"
                             THEN "No credits remaining. Please purchase more credits."
                           ELSE r.error]
         ELSE home' = [home EXCEPT !.creditDeducted = TRUE,
                                   !.paidCredits = r.credits,
                                   !.stored.credits = r.credits,
                                   !.exporting = "render"]
    /\ UNCHANGED <<ledger, orders, credits0, ensure>>

\* a page that delivers the export without counting it
HomeRendered_NotCounted ==
    /\ home.exporting = "render"
    /\ home' = [home EXCEPT !.exporting = "idle", !.delivered = @ + 1,
                            !.userDelivered = IF home.user # NoUser THEN @ + 1 ELSE @]
    /\ UNCHANGED <<ledger, orders, credits0, ensure>>

\* handleDownloadPng steps 3-5: toPng returned, the download is triggered and,
\* without a user, the local count goes up from the value the handler saw.
HomeRendered ==
    /\ home.exporting = "render"
    /\ home' = IF home.user = NoUser /\ home.creditDeducted
                 THEN [home EXCEPT !.exporting = "idle", !.delivered = @ + 1,
                                   !.downloadCount = home.seenCount + 1,
                                   !.stored.downloads = home.seenCount + 1]
                 ELSE [home EXCEPT !.exporting = "idle", !.delivered = @ + 1,
                                   !.userDelivered =
                                      IF home.user # NoUser THEN @ + 1 ELSE @]
    /\ UNCHANGED <<ledger, orders, credits0, ensure>>

\* a page that gives the credit back when the render fails
HomeRenderFailed_Refunds ==
    /\ home.exporting = "render"
    /\ home' = [home EXCEPT !.exporting = "idle",
                            !.error = "Failed to export image. Please try again."]
    /\ credits' = IF HasProfile(home.user)
                    THEN [credits EXCEPT ![home.user] = @ + 1] ELSE credits
    /\ UNCHANGED <<payments, rpcDeployed, pc, req, loc, resp, pre, calls, grants,
                   credited, lost, faults, orders, credits0, ensure>>

\* handleDownloadPng: toPng failed or the 45 s timeout won the race.
HomeRenderFailed ==
    /\ home.exporting = "render"
    /\ \E e \in {"Export is taking too long. Please try again or use a faster connection.",
                 "Failed to export image. Please try again."} :
         home' = [home EXCEPT !.exporting = "idle", !.error = e]
    /\ UNCHANGED <<ledger, orders, credits0, ensure>>

\* handlePayment step 1: the order of a Pro Pack is created and the checkout
\* opens.
HomePayment(o) ==
    /\ home.paying = "idle"
    /\ home' = [home EXCEPT !.paying = "checkout", !.order = o, !.error = ""]
    /\ \E currency \in {"INR", "USD"} :
         CreateOrder(o, [user_id |-> home.user, currency |-> currency,
                         product |-> "proPack"])

\* handlePayment step 3: the checkout calls the handler with the payment x of
\* the order and a signature, and verifyPayment submits them (slot p).
HomePaid(p, x, signatures) ==
    /\ home.paying = "checkout"
    /\ home' = [home EXCEPT !.paying = "verify", !.verifyAttempts = 1]
    /\ VerifyStart(p, home.order, x, signatures, {home.user}, {SessionToken(home)})
    /\ UNCHANGED <<orders, credits0, ensure>>

\* verifyPayment's catch: the response did not arrive (network error); the
\* same confirmation is submitted again, up to maxAttempts attempts in all.
HomeVerifyRetry(p) ==
    /\ home.paying = "verify"
    /\ pc[p] = "done"
    /\ req[p].kind = "verify"
    /\ IF home.verifyAttempts < maxAttempts
         THEN /\ home' = [home EXCEPT !.verifyAttempts = @ + 1]
              /\ VerifyStart(p, req[p].razorpay_order_id, req[p].razorpay_payment_id,
                             {req[p].razorpay_signature}, {home.user},
                             {SessionToken(home)})
         ELSE /\ home' = [home EXCEPT
                     !.paying = "idle",
                     !.error = "Payment may have succeeded but verification failed due to network issues."]
              /\ UNCHANGED ledger
    /\ UNCHANGED <<orders, credits0, ensure>>

\* modal.ondismiss: the checkout is closed without a payment.
HomePaymentDismissed ==
    /\ home.paying = "checkout"
    /\ home' = [home EXCEPT !.paying = "idle",
                            !.error = "Payment cancelled. You can try again when ready."]
    /\ UNCHANGED <<ledger, orders, credits0, ensure>>

\* handlePayment: the response of verify-payment has arrived.
HomeVerified(p) ==
    /\ home.paying = "verify"
    /\ pc[p] = "done"
    /\ req[p].kind = "verify"
    /\ LET r == resp[p]
           newTotalCredits ==
             IF r.duplicate THEN r.total_credits
             ELSE IF r.total_credits # 0 THEN r.total_credits
             ELSE home.paidCredits + PRO_DOWNLOAD_CREDITS
       IN IF r.status = 200 /\ r.success
            THEN home' = [home EXCEPT !.paying = "idle",
                                      !.paidCredits = newTotalCredits,
                                      !.stored.credits = newTotalCredits]
            ELSE home' = [home EXCEPT !.paying = "idle", !.error = r.code]
    /\ UNCHANGED <<ledger, orders, credits0, ensure>>

----------------------------------------------------------------------------
(* Requests *)

\* one hex digit of a signature flipped to another hex digit
Tamper(sig) == [sig EXCEPT ![Len(sig)] = IF @ = "a" THEN "b" ELSE "a"]

\* the same signature written in upper case
UpperCase(sig) ==
    [i \in 1..Len(sig) |-> IF sig[i] = "a" THEN "A" ELSE IF sig[i] = "b" THEN "B" ELSE sig[i]]

\* signatures a client may submit for (order, payment): the provider's, that
\* one tampered, in upper case, followed by a character that is no hex digit,
\* cut short, and none
SubmittedSignatures(order, payment) ==
    LET e == ExpectedSignature(order, payment) IN
    {e, Tamper(e), UpperCase(e), e \o <<"g">>, SubSeq(e, 1, 1), <<>>}

\* the handlers' steps after the request was accepted
DeductStep(p) ==
    \/ DeductFetch(p)
    \/ DeductRpc(p)
    \/ DeductRpcFails(p)
    \/ DeductFallback(p)
    \/ DeductFallbackFails(p)
    \/ DeductReread(p)

VerifyStep(p) ==
    \/ VerifyByPaymentId(p)
    \/ VerifyDuplicateCredits(p)
    \/ VerifyByOrderId(p)
    \/ VerifyInsertFailed(p)
    \/ VerifyFetch(p)
    \/ VerifyUpdate(p)
    \/ VerifyInsert(p)

\* Spec: concurrent requests of the signed-in user u1, who exports and submits
\* confirmations of the payments of one order with the provider's signature or
\* a tampered one.
Next ==
    /\ UNCHANGED others
    /\ \E p \in Procs :
         \/ DeductStart(p, {"u1"}, {"u1"})
         \/ \E o \in {"o1"}, x \in PaymentIds :
              VerifyStart(p, o, x, {ExpectedSignature(o, x), Tamper(ExpectedSignature(o, x))},
                          {"u1"}, {"u1"})
         \/ DeductStep(p)
         \/ VerifyStep(p)

Spec == Init /\ [][Next]_vars

\* DebitSpec: concurrent debit requests of any caller for any account.
DebitNext ==
    /\ UNCHANGED others
    /\ \E p \in Procs :
         \/ DeductStart(p, Users \cup {NoUser}, Tokens)
         \/ DeductStep(p)

DebitSpec == Init /\ [][DebitNext]_vars

\* SeqDebitSpec: the signed-in user u1 exports again and again, each debit
\* request being answered before the next is sent; the account starts with up
\* to MaxCalls credits.
SeqDebitInit ==
    /\ \E c \in 0..MaxCalls :
         credits = [u \in Users |-> IF u = "u1" THEN c ELSE MaxInitCredits]
    /\ payments = <<>>
    /\ rpcDeployed \in BOOLEAN
    /\ pc = [p \in Procs |-> "idle"]
    /\ req = [p \in Procs |-> NoReq]
    /\ loc = [p \in Procs |-> NoLoc]
    /\ resp = [p \in Procs |-> NoResp]
    /\ calls = 0
    /\ grants = [x \in PaymentIds |-> 0]
    /\ credited = {}
    /\ pre = [p \in Procs |-> Snapshot]
    /\ lost = [x \in PaymentIds |-> 0]
    /\ faults = 0
    /\ orders = [o \in Orders |-> NoOrder]
    /\ home = NoHome
    /\ credits0 = credits
    /\ ensure = [f \in Flows |-> NoFlow]

SeqDebitNext ==
    /\ UNCHANGED others
    /\ \/ DeductStart("p1", {"u1"}, {"u1"})
       \/ DeductStep("p1")

SeqDebitSpec == SeqDebitInit /\ [][SeqDebitNext]_vars

\* VerifySpec: verification requests served one after the other, with every
\* kind of submitted signature, with and without a user_id.
VerifyNext ==
    /\ UNCHANGED others
    /\ \/ \E o \in Orders, x \in PaymentIds :
            VerifyStart("p1", o, x, SubmittedSignatures(o, x), {"u1", NoUser}, {NoToken})
       \/ VerifyStep("p1")

VerifyInit == Init /\ rpcDeployed = TRUE

VerifySpec == VerifyInit /\ [][VerifyNext]_vars

\* BindSpec: verification requests served one after the other, for any
\* user_id with any bearer token, with the provider's signature, a tampered
\* one or none.
BindNext ==
    /\ UNCHANGED others
    /\ \/ \E o \in {"o1"}, x \in {"pA"} :
            VerifyStart("p1", o, x,
                        {ExpectedSignature(o, x), Tamper(ExpectedSignature(o, x)), <<>>},
                        Users \cup {NoUser}, Tokens)
       \/ VerifyStep("p1")

BindSpec == VerifyInit /\ [][BindNext]_vars

\* HomeSpec: one visitor of the Home page, who may sign in as u1 and out,
\* export, and buy one Pro Pack, the checkout handing the provider's signature
\* or a tampered one to the page; the page's debit requests are served by slot
\* p1 and its verification requests by slot p2.
HomeNext ==
    \/ HomeSignIn("u1")
    \/ HomeSignOut
    \/ HomeDownloadPng("p1")
    \/ HomeDeducted("p1")
    \/ HomeRendered
    \/ HomeRenderFailed
    \/ HomePayment("o1")
    \/ HomePaid("p2", "pA", {ExpectedSignature(home.order, "pA"),
                             Tamper(ExpectedSignature(home.order, "pA"))})
    \/ HomeVerifyRetry("p2")
    \/ HomePaymentDismissed
    \/ HomeVerified("p2")
    \/ /\ UNCHANGED others
       /\ \/ DeductStep("p1")
          \/ VerifyStep("p2")

HomeSpec == Init /\ [][HomeNext]_vars

\* request bodies of create-order: supported and unsupported currencies and
\* products
OrderBodies ==
    [user_id : {"u1"}, currency : {"INR", "USD", "EUR"},
     product : {"proPack", "business", "gold"}]

\* PurchaseSpec: orders are created for any request body; an order that was
\* created is paid, and its confirmation, with the provider's signature or a
\* tampered one, is submitted for account u1; requests are served one after
\* the other.
PurchaseNext ==
    \/ /\ UNCHANGED <<home, ensure>>
       /\ \E o \in Orders, body \in OrderBodies : CreateOrder(o, body)
    \/ /\ UNCHANGED others
       /\ \/ \E o \in Orders, x \in PaymentIds :
               /\ orders[o] # NoOrder
               /\ VerifyStart("p1", o, x,
                              {ExpectedSignature(o, x), Tamper(ExpectedSignature(o, x))},
                              {"u1"}, {NoToken})
          \/ VerifyStep("p1")

PurchaseSpec == VerifyInit /\ [][PurchaseNext]_vars

\* request bodies of create-order that also carry an amount
OrderRequests ==
    [user_id : {"u1", NoUser}, currency : {"INR", "USD", "EUR"},
     product : {"proPack", "business", "gold"}, amount : {1, AMOUNT_IN_PAISE}]

\* OrderSpec: orders are created for any request body.
OrderNext ==
    /\ UNCHANGED <<home, ensure>>
    /\ \E o \in Orders, body \in OrderRequests : CreateOrder(o, body)

OrderSpec == Init /\ [][OrderNext]_vars

\* ProfileSpec: user u1, with or without a profile row, signs in again and
\* again, both flows ensuring the profile, while debit requests and
\* verification requests for the account are served one after the other.
ProfileNext ==
    \/ \E f \in Flows : EnsureStart(f, "u1")
    \/ \E f \in Flows : EnsureExists(f)
    \/ \E f \in Flows : EnsureCreate(f)
    \/ /\ UNCHANGED others
       /\ \/ DeductStart("p1", {"u1"}, {"u1"})
          \/ \E x \in {"pA"} :
               VerifyStart("p1", "o1", x,
                           {ExpectedSignature("o1", x), Tamper(ExpectedSignature("o1", x))},
                           {"u1"}, {"u1"})
          \/ DeductStep("p1")
          \/ VerifyStep("p1")

ProfileSpec == Init /\ [][ProfileNext]_vars

----------------------------------------------------------------------------
(* Properties of the debit operation (DebitSpec) *)

\* slot p has returned the response of a debit request that passed steps 1-2
\* for an account that exists
DebitServed(p) ==
    /\ pc[p] = "done"
    /\ req[p].kind = "deduct"
    /\ req[p].user_id \in Users
    /\ SessionUser(req[p].token) = req[p].user_id
    /\ req[p].user_id \in DOMAIN pre[p].credits

DebitSucceeded(p) == resp[p].status = 200 /\ resp[p].success

DebitInsufficient(p) ==
    /\ resp[p].status = 400
    /\ ~resp[p].success
    /\ resp[p].error = "Insufficient credits"

\* the only two requests of the run are debits of account u that both arrived
\* while credits = 1, and both have been answered without a store failure
TwoDebitsOnOneCredit(u) ==
    /\ calls = 2
    /\ faults = 0
    /\ \A p \in Procs :
         /\ DebitServed(p)
         /\ req[p].user_id = u
         /\ pre[p].credits[u] = 1

\* C1: given an account with credits = 1, two concurrent debit calls for it
\* produce, under every interleaving of their store reads and writes, exactly
\* one success and one 'Insufficient credits' failure, and credits ends at 0.
C1_ConcurrentDebitsOneSuccess ==
    \A u \in Users :
      TwoDebitsOnOneCredit(u) =>
        /\ credits[u] = 0
        /\ \E p \in Procs : \E q \in Procs \ {p} :
             DebitSucceeded(p) /\ DebitInsufficient(q)

\* C3: credits never goes below 0 under any debit calls, and a debit of an
\* account whose credits is 0 fails with 'Insufficient credits' (HTTP 400),
\* writes nothing to the ledger and leaves credits at 0.
C3_NonNegativeAndRefusedAtZero ==
    /\ \A u \in DOMAIN credits : credits[u] >= 0
    /\ \A p \in Procs :
         (DebitServed(p) /\ pre[p].credits[req[p].user_id] = 0) =>
           /\ DebitInsufficient(p)
           /\ resp[p].credits = 0
           /\ loc[p].ledgerWrites = 0
           /\ credits[req[p].user_id] = 0

\* C3 witness: a debit of an account with credits = 0 has been answered, and
\* another account's debit has brought its credits down to 0.
C3_Witness ==
    /\ \E p \in Procs :
         /\ DebitServed(p)
         /\ pre[p].credits[req[p].user_id] = 0
         /\ loc[p].fetched
         /\ resp[p].status = 400
    /\ \E p \in Procs :
         /\ DebitServed(p)
         /\ DebitSucceeded(p)
         /\ loc[p].ledgerWrites = 1
         /\ credits[req[p].user_id] = 0

\* slot p has returned the response of a debit request whose token resolves to
\* a user other than the requested user_id
DebitForOther(p) ==
    /\ pc[p] = "done"
    /\ req[p].kind = "deduct"
    /\ SessionUser(req[p].token) # NoUser
    /\ SessionUser(req[p].token) # req[p].user_id

\* C10: a debit request whose authenticated identity differs from the
\* requested user_id is rejected with HTTP 403 and changes no account's
\* credits: the call writes nothing to the ledger, and when it is the only
\* request so far every account's credits is as the request found it.
C10_DebitForOtherForbidden ==
    \A p \in Procs :
      DebitForOther(p) =>
        /\ resp[p].status = 403
        /\ ~resp[p].success
        /\ loc[p].ledgerWrites = 0
        /\ calls = 1 => credits = pre[p].credits

\* C10 witness: u1's token was used to ask for a debit of u2, which has credits.
C10_Witness ==
    \E p \in Procs :
      /\ DebitForOther(p)
      /\ req[p].token = "u1"
      /\ req[p].user_id = "u2"
      /\ credits["u2"] > 0
      /\ resp[p].code = "USER_MISMATCH"

\* the slots that have answered a debit request of account u with success
DebitSuccesses(u) ==
    {p \in Procs : /\ pc[p] = "done"
                   /\ req[p].kind = "deduct"
                   /\ req[p].user_id = u
                   /\ DebitSucceeded(p)}

\* every request of the run has been answered, each by a slot of its own
EachSlotServedOnce ==
    /\ \A p \in Procs : pc[p] \in {"idle", "done"}
    /\ calls = Cardinality({p \in Procs : pc[p] = "done"})

\* C14: a debit call that returns success has decremented the account's
\* credits by exactly 1 in one ledger mutation, a debit call that returns a
\* failure has made no ledger mutation; so after debit calls only, initial
\* credits minus final credits is the number of success responses.
C14_OneMutationPerSuccess ==
    /\ \A p \in Procs :
         (pc[p] = "done" /\ req[p].kind = "deduct") =>
           IF DebitSucceeded(p)
             THEN loc[p].ledgerWrites = 1 /\ loc[p].ledgerDelta = -1
             ELSE loc[p].ledgerWrites = 0
    /\ EachSlotServedOnce =>
         \A u \in DOMAIN credits :
           credits0[u] - credits[u] = Cardinality(DebitSuccesses(u))

\* C18: for an account with credits = n, the k-th of a sequence of debit
\* calls succeeds and returns the balance n - k for every k <= n, so that the
\* n-th leaves credits = 0; every later call fails with 'Insufficient
\* credits' (no store failure occurring).
C18_SequentialDebits ==
    (pc["p1"] = "done" /\ faults = 0) =>
      LET n == credits0["u1"]
          k == calls
      IN IF k <= n
           THEN /\ DebitSucceeded("p1")
                /\ resp["p1"].credits = n - k
                /\ resp["p1"].deducted = 1
                /\ credits["u1"] = n - k
           ELSE /\ DebitInsufficient("p1")
                /\ credits["u1"] = 0

\* C18 witness: an account that started with 2 credits was debited twice and
\* the third debit has been refused.
C18_Witness ==
    /\ credits0["u1"] = 2
    /\ calls = 3
    /\ faults = 0
    /\ pc["p1"] = "done"
    /\ DebitInsufficient("p1")
    /\ credits["u1"] = 0

----------------------------------------------------------------------------
(* Properties of payment verification under concurrency (Spec) *)

\* the rows with status = success of payment id x
SuccessRows(x) ==
    {i \in 1..Len(payments) :
       payments[i].razorpay_payment_id = x /\ payments[i].status = "success"}

\* the only two requests of the run are verifications that carry the same
\* valid (order, payment, signature) for account u, both arrived before any
\* row was inserted and before any ledger write, and both have been answered
\* without a store failure
TwoVerificationsOfOnePayment(u) ==
    /\ calls = 2
    /\ faults = 0
    /\ \A p \in Procs :
         /\ pc[p] = "done"
         /\ req[p].kind = "verify"
         /\ req[p].user_id = u
         /\ u \in DOMAIN pre[p].credits
         /\ IsValid(req[p].razorpay_order_id, req[p].razorpay_payment_id,
                    req[p].razorpay_signature) = "true"
         /\ pre[p].rows = 0
         /\ pre[p].grants = [x \in PaymentIds |-> 0]
    /\ req["p1"] = req["p2"]

\* C2: two concurrent verification requests with the same valid (orderId,
\* paymentId, signature) for a payment never seen before do not both credit
\* the account: credits rises by exactly one grant (10) and at most one
\* success row exists for that paymentId.
C2_ConcurrentVerificationOneGrant ==
    \A u \in Users :
      TwoVerificationsOfOnePayment(u) =>
        /\ credits[u] = pre["p1"].credits[u] + CREDITS_TO_ADD
        /\ Cardinality(SuccessRows(req["p1"].razorpay_payment_id)) <= 1

\* the rows with status = success of order o
SuccessRowsOfOrder(o) ==
    {i \in 1..Len(payments) :
       payments[i].razorpay_order_id = o /\ payments[i].status = "success"}

\* C12: in every reachable state of the payments table, at most one row with
\* status = success exists for each payment id, and at most one for each
\* order id.
C12_SuccessRowsUnique ==
    /\ \A x \in PaymentIds : Cardinality(SuccessRows(x)) <= 1
    /\ \A o \in Orders : Cardinality(SuccessRowsOfOrder(o)) <= 1

\* the only two requests of the run are a debit of account u and a
\* verification crediting account u, both answered with success and without a
\* store failure
DebitAndCreditSucceeded(u) ==
    /\ calls = 2
    /\ faults = 0
    /\ \E p \in Procs : \E q \in Procs \ {p} :
         /\ DebitServed(p)
         /\ DebitSucceeded(p)
         /\ req[p].user_id = u
         /\ pc[q] = "done"
         /\ req[q].kind = "verify"
         /\ req[q].user_id = u
         /\ resp[q].code = "SUCCESS"

\* C13: when a debit and a payment-verification credit of one account both
\* report success, in whatever way their steps interleave, the final credits
\* is the initial credits + 10 - 1.
C13_DebitAndCreditBothApplied ==
    \A u \in Users :
      DebitAndCreditSucceeded(u) =>
        credits[u] = credits0[u] + CREDITS_TO_ADD - 1

----------------------------------------------------------------------------
(* Properties of sequential payment verification (VerifySpec) *)

\* slot p has returned the response of a verification request
VerifyServed(p) == pc[p] = "done" /\ req[p].kind = "verify"

\* the signature of the request passes steps 4-5
SignatureAccepted(p) ==
    IsValid(req[p].razorpay_order_id, req[p].razorpay_payment_id,
            req[p].razorpay_signature) = "true"

\* the rows of the payments table as the request of slot p found them
PreRows(p) == {payments[i] : i \in 1..pre[p].rows}

\* the rows inserted since the request of slot p arrived
NewRows(p) == {payments[i] : i \in (pre[p].rows + 1)..Len(payments)}

\* the call of slot p answered as a duplicate and granted nothing
AnsweredAsDuplicate(p) ==
    /\ resp[p].status = 200
    /\ resp[p].success
    /\ resp[p].duplicate
    /\ resp[p].credits_added = 0
    /\ resp[p].total_credits = pre[p].credits[req[p].user_id]
    /\ credits = pre[p].credits
    /\ loc[p].ledgerWrites = 0

C6_ReplayRejected ==
    \A p \in Procs :
      (/\ VerifyServed(p)
       /\ req[p].user_id \in Users
       /\ req[p].razorpay_signature =
            ExpectedSignature(req[p].razorpay_order_id, req[p].razorpay_payment_id)
       /\ pre[p].grants[req[p].razorpay_payment_id] = 0
       /\ \E r \in PreRows(p) :
            /\ r.status = "success"
            /\ r.razorpay_order_id = req[p].razorpay_order_id
            /\ r.razorpay_payment_id # req[p].razorpay_payment_id)
      => /\ resp[p].code = "REPLAY_ATTACK"
         /\ resp[p].status = 400
         /\ ~resp[p].success
         /\ credits = pre[p].credits
         /\ NewRows(p) = {}

\* C7: a request with all fields whose signature differs from the expected
\* one, for a payment id and an order id with no row yet, is rejected with
\* INVALID_SIGNATURE, leaves credits unchanged and inserts one row with
\* status signature_failed and credits_added = 0 (no store failure occurring).
C7_BadSignatureRejectedAndRecorded ==
    \A p \in Procs :
      (/\ VerifyServed(p)
       /\ faults = 0
       /\ req[p].razorpay_signature # <<>>
       /\ req[p].razorpay_signature #
            ExpectedSignature(req[p].razorpay_order_id, req[p].razorpay_payment_id)
       /\ \A r \in PreRows(p) :
            /\ r.razorpay_payment_id # req[p].razorpay_payment_id
            /\ r.razorpay_order_id # req[p].razorpay_order_id)
      => /\ resp[p].code = "INVALID_SIGNATURE"
         /\ credits = pre[p].credits
         /\ NewRows(p) = {SignatureFailedRow(req[p])}

\* C8: no verification request whose signature is not accepted by the
\* signature check is answered with success = true.
C8_BadSignatureNeverSucceeds ==
    \A p \in Procs :
      (VerifyServed(p) /\ ~SignatureAccepted(p)) => ~resp[p].success

\* C9: a request with the expected signature for an existing account, for a
\* payment id with no grant yet and an order with no success row, is credited
\* exactly once (no store failure occurring), whatever attempts preceded it.
C9_AuthenticPaymentCredited ==
    \A p \in Procs :
      (/\ VerifyServed(p)
       /\ faults = 0
       /\ req[p].user_id \in DOMAIN pre[p].credits
       /\ req[p].razorpay_signature =
            ExpectedSignature(req[p].razorpay_order_id, req[p].razorpay_payment_id)
       /\ pre[p].grants[req[p].razorpay_payment_id] = 0
       /\ \A r \in PreRows(p) :
            ~(r.status = "success" /\ r.razorpay_order_id = req[p].razorpay_order_id))
      => /\ resp[p].code = "SUCCESS"
         /\ grants[req[p].razorpay_payment_id] = 1
         /\ credits[req[p].user_id] = pre[p].credits[req[p].user_id] + CREDITS_TO_ADD

RecordsOfCall(p) ==
    /\ loc[p].inserted <= 1
    /\ Len(payments) = pre[p].rows + loc[p].inserted
    /\ loc[p].inserted = 1 =>
         /\ req[p].user_id # NoUser
         /\ \/ /\ resp[p].code = "SUCCESS"
               /\ \A r \in NewRows(p) :
                    r.status = "success" /\ r.credits_added = CREDITS_TO_ADD
            \/ /\ resp[p].code = "INVALID_SIGNATURE"
               /\ \A r \in NewRows(p) :
                    r.status = "signature_failed" /\ r.credits_added = 0
         /\ \A r \in NewRows(p) :
              /\ r.user_id = req[p].user_id
              /\ r.razorpay_order_id = req[p].razorpay_order_id
              /\ r.razorpay_payment_id = req[p].razorpay_payment_id
    /\ (/\ faults = 0
        /\ req[p].user_id # NoUser
        /\ resp[p].code \in {"SUCCESS", "INVALID_SIGNATURE"}) => loc[p].inserted = 1

\* no row of the payments table is changed or removed by a step
RowsKept ==
    /\ Len(payments') >= Len(payments)
    /\ SubSeq(payments', 1, Len(payments)) = payments

RecordLost(p) ==
    /\ VerifyServed(p)
    /\ loc[p].ledgerWrites = 1
    /\ loc[p].inserted = 0

\* C17: when the ledger update of a verification succeeds but the insert of
\* the success record fails, the credits stay granted and the call returns
\* success = true with duplicate = false, credits_added = 10 and total_credits
\* equal to the new balance.
C17_LostRecordStillSuccess ==
    \A p \in Procs :
      RecordLost(p) =>
        /\ credits[req[p].user_id] = pre[p].credits[req[p].user_id] + CREDITS_TO_ADD
        /\ resp[p].status = 200
        /\ resp[p].success
        /\ ~resp[p].duplicate
        /\ resp[p].credits_added = 10
        /\ resp[p].total_credits = credits[req[p].user_id]

\* C17 witness: the success record of a credited payment was lost and the
\* call has returned; the payments table has no row for the payment.
C17_Witness ==
    \E p \in Procs :
      /\ RecordLost(p)
      /\ lost[req[p].razorpay_payment_id] = 1
      /\ grants[req[p].razorpay_payment_id] = 1
      /\ SuccessRows(req[p].razorpay_payment_id) = {}

----------------------------------------------------------------------------
(* Identity binding of payment verification (BindSpec) *)

\* slot p has answered a verification request that names a user_id and carries
\* a bearer token of another user
IdentityMismatch(p) ==
    /\ VerifyServed(p)
    /\ req[p].user_id # NoUser
    /\ SessionUser(req[p].token) # NoUser
    /\ SessionUser(req[p].token) # req[p].user_id

\* C11: a verification request that supplies user_id with an authentication
\* proof of another subject fails with USER_MISMATCH (403) when its required
\* fields are present (MISSING_DETAILS otherwise), and performs no further
\* action: no store read, no ledger write, no PaymentRecord insert.
C11_MismatchStopsVerification ==
    \A p \in Procs :
      IdentityMismatch(p) =>
        /\ ~resp[p].success
        /\ IF req[p].razorpay_signature = <<>>
             THEN resp[p].code = "MISSING_DETAILS" /\ resp[p].status = 400
             ELSE resp[p].code = "USER_MISMATCH" /\ resp[p].status = 403
        /\ loc[p].reads = 0
        /\ loc[p].ledgerWrites = 0
        /\ loc[p].inserted = 0
        /\ credits = pre[p].credits
        /\ Len(payments) = pre[p].rows

\* C11 witness: u2's token was presented with the provider's signature of a
\* payment to be credited to the existing account u1, and was turned away.
C11_Witness ==
    \E p \in Procs :
      /\ IdentityMismatch(p)
      /\ req[p].token = "u2"
      /\ req[p].user_id = "u1"
      /\ "u1" \in DOMAIN credits
      /\ SignatureAccepted(p)
      /\ resp[p].code = "USER_MISMATCH"

----------------------------------------------------------------------------
(* Credits of the product bought (PurchaseSpec) *)

\* the credit count of the product an order was created for
CreditsOfOrder(order) == IF order.credits = "10" THEN 10 ELSE 50

\* C15: a successful verification grants the credit count of the product the
\* order was created for (proPack 10, business 50): that number is reported,
\* added to the ledger, and stored as credits_added of the record.
C15_GrantIsProductCredits ==
    \A p \in Procs :
      (/\ VerifyServed(p)
       /\ resp[p].code = "SUCCESS"
       /\ orders[req[p].razorpay_order_id] # NoOrder)
      => LET n == CreditsOfOrder(orders[req[p].razorpay_order_id]) IN
           /\ resp[p].credits_added = n
           /\ loc[p].ledgerDelta = n
           /\ \A r \in NewRows(p) : r.credits_added = n

----------------------------------------------------------------------------
(* Entitlement evaluation of the Home page (HomeSpec) *)

\* C19: for a signed-in user the evaluation allows an export whenever the
\* one-time post-login free export has not been used, whatever paidCredits
\* and the other counters are; once it has been used, the export is allowed
\* exactly when paidCredits > 0, and the remaining count is paidCredits.
C19_AuthenticatedEntitlement ==
    isAuthenticated(home) =>
      IF ~home.hasUsedPostLoginFree
        THEN ~hasReachedLimit(home)
        ELSE /\ ~hasReachedLimit(home) <=> home.paidCredits > 0
             /\ remainingDownloads(home) = home.paidCredits

\* C20: for a visitor who is not signed in the evaluation allows an export
\* exactly when the download count is below 1, and the remaining count is
\* max(0, 1 - download count): 1 at count 0, refused with 0 remaining at
\* count 1.
C20_AnonymousEntitlement ==
    ~isAuthenticated(home) =>
      /\ ~hasReachedLimit(home) <=> home.downloadCount < 1
      /\ remainingDownloads(home) =
           IF 1 - home.downloadCount > 0 THEN 1 - home.downloadCount ELSE 0

----------------------------------------------------------------------------
(* Properties of the export orchestration (HomeSpec) *)

\* C21: once a signed-in user has completed an export, hasUsedPostLoginFree
\* is true, in the page's state and in localStorage, and stays true.
C21_FreeExportMarkedUsed ==
    home.userDelivered > 0 =>
        /\ home.hasUsedPostLoginFree
        /\ home.stored.postLoginFreeUsed

\* the debit request of the export in progress was answered with success
ExportDebited ==
    \E p \in Procs :
        /\ pc[p] = "done"
        /\ req[p].kind = "deduct"
        /\ req[p].user_id = home.user
        /\ DebitSucceeded(p)

\* C22: the renderer is invoked for a signed-in user only after the debit
\* request of that export was answered with success, and for a visitor only
\* after the local limit check passed; downloadCount changes only when a
\* visitor's render has succeeded, and the credits shown change during an
\* export only on the success response of its debit.
C22_DebitBeforeRender ==
    [][ /\ (home.exporting # "render" /\ home'.exporting = "render") =>
             IF home.user # NoUser
               THEN home.exporting = "deduct" /\ ExportDebited
               ELSE home.downloadCount < FREE_DOWNLOAD_LIMIT
        /\ (home'.downloadCount # home.downloadCount /\ home'.user = home.user) =>
             /\ home.user = NoUser
             /\ home.exporting = "render"
             /\ home'.delivered = home.delivered + 1
        /\ (home'.paidCredits # home.paidCredits /\ home'.user = home.user
                /\ home'.paying = home.paying) =>
             /\ home.exporting = "deduct"
             /\ ExportDebited
             /\ home'.exporting = "render"
      ]_vars

\* an export of a signed-in user and an export of a visitor were both
\* completed
C22_Witness ==
    /\ home.userDelivered > 0
    /\ home.delivered > home.userDelivered

\* the message of page.tsx:700
PurchaseMessage == "No credits remaining. Please purchase more credits."

\* the debit request of the export in progress was refused for lack of credits
ExportRefused ==
    /\ home.exporting = "deduct"
    /\ \E p \in Procs :
          /\ pc[p] = "done"
          /\ req[p].kind = "deduct"
          /\ DebitInsufficient(p)

\* C23: when the debit of an export is answered Insufficient credits, the
\* export attempt ends with the purchase message, without a render and
\* without a download; while that message is shown no export is in progress.
C23_InsufficientPromptsPurchase ==
    /\ [](home.error = PurchaseMessage => home.exporting = "idle")
    /\ [][ (ExportRefused /\ home'.exporting # home.exporting) =>
              /\ home'.exporting = "idle"
              /\ home'.error = PurchaseMessage
              /\ home'.delivered = home.delivered
              /\ home'.downloadCount = home.downloadCount
              /\ home'.paidCredits = home.paidCredits
          ]_vars

\* a signed-in user whom the page allowed to export was shown the purchase
\* message
C23_Witness ==
    /\ home.user # NoUser
    /\ home.error = PurchaseMessage
    /\ home.attempts > 0

----------------------------------------------------------------------------
(* Properties of order creation (OrderSpec) *)

\* C24: the amount of every order sent to the provider is the price-table
\* entry of the currency and product the order is created with, which are the
\* requested ones when those are supported; the amount field of the request
\* has no influence.
C24_AmountFromPriceTable ==
    \A o \in Orders :
        orders[o] # NoOrder =>
            /\ orders[o].amount =
                  PRICING(orders[o].currency, OrderProduct(orders[o].asked.product))
            /\ orders[o].asked.currency \in {"INR", "USD"} =>
                  orders[o].currency = orders[o].asked.currency
            /\ (orders[o].asked.currency \in {"INR", "USD"}
                  /\ orders[o].asked.product \in {"proPack", "business"}) =>
                  orders[o].amount =
                      PRICING(orders[o].asked.currency, orders[o].asked.product)

\* an order was created from a request that names another amount than the
\* price of its product
C24_Witness ==
    \E o \in Orders :
        /\ orders[o] # NoOrder
        /\ orders[o].asked.currency = "USD"
        /\ orders[o].asked.product = "business"
        /\ orders[o].asked.amount = 1
        /\ orders[o].amount = 1299

\* C25: an order exists at the provider only for a request whose currency and
\* product are supported ones; a request with a malformed currency or product
\* creates none.
C25_MalformedOrderRejected ==
    \A o \in Orders :
        orders[o] # NoOrder =>
            /\ orders[o].asked.currency \in {"INR", "USD"}
            /\ orders[o].asked.product \in {"proPack", "business"}

----------------------------------------------------------------------------
(* Properties of the order of the verification steps (BindSpec) *)

\* what the call in slot p has done so far: store reads, ledger writes, inserts
Done(p) == <<loc[p].reads, loc[p].ledgerWrites, loc[p].inserted>>

\* the signature of the request in slot p is the provider's
RequestSigned(p) ==
    IsValid(req[p].razorpay_order_id, req[p].razorpay_payment_id,
            req[p].razorpay_signature) = "true"

\* C26: a verification call goes through identity binding, the lookup by
\* payment id, the lookup by order id, the signature comparison, the ledger
\* credit and the record insert in this order: at each position the earlier
\* steps have been done and passed and no later one has; credits are raised
\* only by a call whose lookup by payment id found nothing and whose
\* signature is the provider's, and a row is inserted only after that.
C26_StepsInOrder ==
    /\ [](\A p \in Procs :
            req[p].kind = "verify" =>
              /\ pc[p] # "idle" =>
                    \/ ~VerifyUserMismatch(req[p].user_id, req[p].token)
                    \/ Done(p) = <<0, 0, 0>>
              /\ pc[p] = "v_byPayment" => Done(p) = <<0, 0, 0>>
              /\ pc[p] \in {"v_dupCredits", "v_byOrder"} => Done(p) = <<1, 0, 0>>
              /\ pc[p] = "v_insertFailed" => Done(p) = <<2, 0, 0>> /\ ~RequestSigned(p)
              /\ pc[p] = "v_fetch" => Done(p) = <<2, 0, 0>> /\ RequestSigned(p)
              /\ pc[p] = "v_update" => Done(p) = <<3, 0, 0>> /\ RequestSigned(p)
              /\ pc[p] = "v_insert" => Done(p) = <<3, 1, 0>> /\ RequestSigned(p))
    /\ [][ \A p \in Procs :
              (req[p].kind = "verify" /\ calls' = calls) =>
                /\ (pc[p] = "v_byPayment" /\ pc'[p] = "v_byOrder") =>
                      ExistingByPaymentId(req[p].razorpay_payment_id) = NoRow
                /\ (pc[p] = "v_byOrder" /\ pc'[p] \in {"v_fetch", "v_insertFailed"}) =>
                      ExistingByOrderId(req[p].razorpay_order_id) = NoRow
                /\ pc'[p] = "v_byOrder" => pc[p] \in {"v_byPayment", "v_byOrder"}
                /\ pc'[p] = "v_fetch" => pc[p] \in {"v_byOrder", "v_fetch"}
                /\ pc'[p] = "v_update" => pc[p] \in {"v_fetch", "v_update"}
                /\ pc'[p] = "v_insert" => pc[p] \in {"v_update", "v_insert"}
                /\ loc'[p].ledgerWrites # loc[p].ledgerWrites =>
                      pc[p] = "v_update" /\ pc'[p] = "v_insert"
                /\ loc'[p].inserted # loc[p].inserted =>
                      pc[p] \in {"v_insert", "v_insertFailed"} /\ pc'[p] = "done"
          ]_vars

\* a call has gone through all steps: it was credited and recorded
C26_Witness ==
    \E p \in Procs :
        /\ VerifyServed(p)
        /\ req[p].token # NoToken
        /\ Done(p) = <<3, 1, 1>>
        /\ resp[p].code = "SUCCESS"

----------------------------------------------------------------------------
(* Properties of requests without a proof of identity (BindSpec) *)

\* slot p has answered a verification request that names a user_id and
\* carries no bearer token or one that auth.getUser does not resolve
Unproven(p) ==
    /\ VerifyServed(p)
    /\ req[p].user_id # NoUser
    /\ SessionUser(req[p].token) = NoUser
    /\ req[p].razorpay_signature # <<>>

\* C27: a verification request that names user_id without a token, or with a
\* token that cannot be verified, is not turned away by the identity binding
\* and goes on to the lookup by payment id; when that lookup and the lookup
\* by order id find nothing and the signature is the provider's, it credits
\* the named account (no store failure occurring).
C27_UnprovenIdentityProceeds ==
    \A p \in Procs :
      Unproven(p) =>
        /\ resp[p].code # "USER_MISMATCH"
        /\ resp[p].status \notin {401, 403}
        /\ loc[p].reads >= 1
        /\ (/\ faults = 0
            /\ req[p].user_id \in DOMAIN pre[p].credits
            /\ RequestSigned(p)
            /\ \A r \in PreRows(p) :
                 /\ r.razorpay_payment_id # req[p].razorpay_payment_id
                 /\ ~(r.status = "success" /\ r.razorpay_order_id = req[p].razorpay_order_id))
           => /\ resp[p].code = "SUCCESS"
              /\ loc[p].ledgerWrites = 1
              /\ credits[req[p].user_id] = pre[p].credits[req[p].user_id] + CREDITS_TO_ADD

\* account u1 was credited by a request carrying a token that auth.getUser
\* rejects
C27_Witness ==
    \E p \in Procs :
      /\ Unproven(p)
      /\ req[p].token = BadToken
      /\ req[p].user_id = "u1"
      /\ resp[p].code = "SUCCESS"
      /\ credits["u1"] = pre[p].credits["u1"] + CREDITS_TO_ADD

----------------------------------------------------------------------------
(* Properties of profile creation (ProfileSpec) *)

\* C28: no profile row disappears; a row that appears has DEFAULT_CREDITS and
\* is the work of a createProfile call for that user; no step of a sign-in
\* flow changes the credits of a row that exists; a createProfile call that
\* found a row reports the existing profile and one that reports a created
\* profile found none.
C28_ProfileCreationKeepsCredits ==
    /\ [](\A f \in Flows :
            /\ ensure[f].result = "created" => ensure[f].before = None
            /\ ensure[f].result = "existing" => ensure[f].before # None)
    /\ [][ /\ DOMAIN credits \subseteq DOMAIN credits'
           /\ \A u \in DOMAIN credits' \ DOMAIN credits :
                /\ credits'[u] = DEFAULT_CREDITS
                /\ \E f \in Flows :
                     /\ ensure[f].pc = "create"
                     /\ ensure[f].user = u
                     /\ ensure'[f].result = "created"
           /\ ensure' # ensure =>
                \A u \in DOMAIN credits : credits'[u] = credits[u]
         ]_vars

\* createProfile ran for an account that had been credited by a purchase
\* and debited since its row was created
C28_Witness ==
    \E f \in Flows :
        /\ ensure[f].pc = "done"
        /\ ensure[f].result = "existing"
        /\ ensure[f].before = CREDITS_TO_ADD
        /\ credits[ensure[f].user] = CREDITS_TO_ADD

----------------------------------------------------------------------------
(* Properties of the exports of a visitor (HomeSpec) *)

\* history: the exports delivered while no user was signed in
anonymousDelivered == home.delivered - home.userDelivered

\* C29: in a browser that starts with downloadCount = 0, at most
\* FREE_DOWNLOAD_LIMIT = 1 export is ever delivered while no user is signed
\* in, whatever paidCredits holds; the exports so delivered are the ones
\* downloadCount counts.
C29_AnonymousExportsOnce ==
    /\ anonymousDelivered <= FREE_DOWNLOAD_LIMIT
    /\ home.exporting = "idle" => home.downloadCount = anonymousDelivered

\* a visitor who exported once and holds purchased credits is refused
C29_Witness ==
    /\ home.user = NoUser
    /\ anonymousDelivered = 1
    /\ home.paidCredits = PRO_DOWNLOAD_CREDITS
    /\ ~hasReachedLimit(home)
    /\ home.error = "Free limit reached. Please sign up to get more credits."

----------------------------------------------------------------------------
(* Properties of a failed render (HomeSpec) *)

\* the messages of page.tsx:801 and 807
RenderErrors ==
    {"Export is taking too long. Please try again or use a faster connection.",
     "Failed to export image. Please try again."}

\* the only export attempt so far, of a signed-in user, was debited and its
\* render failed; nothing was ever purchased
DebitedNotDelivered ==
    /\ home.user # NoUser
    /\ home.attempts = 1
    /\ home.exporting = "idle"
    /\ home.creditDeducted
    /\ home.delivered = 0
    /\ \A p \in Procs : req[p].kind # "verify"

\* C30: the step in which a render fails writes nothing to the ledger, sends
\* no request and leaves downloadCount and the credits shown as they are; an
\* account debited for an export whose render failed stays one credit lower
\* than it started, with nothing delivered.
C30_NoCompensation ==
    /\ [](DebitedNotDelivered =>
            credits[home.user] = credits0[home.user] - 1)
    /\ [][ (home.exporting = "render" /\ home'.exporting = "idle"
              /\ home'.delivered = home.delivered) =>
             /\ home'.error \in RenderErrors
             /\ credits' = credits
             /\ payments' = payments
             /\ calls' = calls
             /\ home'.downloadCount = home.downloadCount
             /\ home'.stored = home.stored
             /\ home'.paidCredits = home.paidCredits
         ]_vars

\* u1's only credit was debited for an export that was not delivered
C30_Witness ==
    /\ DebitedNotDelivered
    /\ credits0[home.user] = 1
    /\ credits[home.user] = 0
    /\ home.paidCredits = 0

====
